---- MODULE Spec2Model ----
(***************************************************************************)
(* Model of scripts/create_docx_template.py: the module-level imports, the *)
(* function create_template() and the __main__ block with its two except   *)
(* clauses.  One action per statement (or per library call); the document  *)
(* library, the file system and the standard streams are the environment.  *)
(***************************************************************************)
EXTENDS Integers, Sequences, FiniteSets, TLC

(* ------------------------------ bounds --------------------------------- *)

\* Largest number of sections the library's blank document may carry.
MaxSections == 2

(* ------------------- docx.shared length conversions -------------------- *)

\* docx.shared.Length: lengths are integers in English Metric Units.
EMUS_PER_INCH == 914400
EMUS_PER_PT == 12700

\* A Python float literal is written as the rational <<num, den>>.
Half == <<1, 2>>

\* docx.shared.Inches(x) = int(x * 914400)
Inches(x) == (x[1] * EMUS_PER_INCH) \div x[2]

\* docx.shared.Pt(n) = int(n * 12700)
Pt(n) == n * EMUS_PER_PT

(* ----------------------------- literals -------------------------------- *)

OutputPath == "../assets/docx/document_template.docx"
\* A second path of the file system, never named by the script.
CwdPath == "document_template.docx"
Paths == {OutputPath, CwdPath}

CheckMark == "U+2713"
ForMarker == "{% for page in pages %}"
ImgMarker == "{{%img}}"
EndMarker == "{% endfor %}"

MarkerText_Swapped(k) == CASE k = 1 -> ForMarker [] k = 2 -> EndMarker [] OTHER -> ImgMarker

\* The text, and whether the paragraph is centred, of the k-th marker.
MarkerText(k) == CASE k = 1 -> ForMarker [] k = 2 -> ImgMarker [] OTHER -> EndMarker
MarkerCentred(k) == k \in {1, 2}
NumMarkers == 3

\* The lines the script prints; a line is the sequence of its pieces.
SuccessLine == <<CheckMark, " Template created successfully at: ", OutputPath>>
UsageLine == <<"  This template can now be used by the Flutter app to generate DOCX files.">>
DepMissingLine == <<"Error: python-docx is not installed.">>
InstallHintLine == <<"Install it with: pip install python-docx">>
ErrorLine(e) == <<"Error creating template: ", e.msg>>

(* ------------------------- Python exceptions --------------------------- *)

NoExc == [type |-> "None", msg |-> "", at |-> "none"]

\* The direct base class of each exception type that occurs.
Base(t) ==
    CASE t = "ModuleNotFoundError" -> "ImportError"
      [] t = "ImportError" -> "Exception"
      [] t = "PermissionError" -> "OSError"
      [] t = "FileNotFoundError" -> "OSError"
      [] t = "OSError" -> "Exception"
      [] t = "UnicodeEncodeError" -> "ValueError"
      [] t = "ValueError" -> "Exception"
      [] t = "PackageNotFoundError" -> "Exception"
      [] OTHER -> "BaseException"

\* isinstance(e, cls): cls is on the chain of bases of e's type.
RECURSIVE IsSubclass(_, _)
IsSubclass(t, cls) ==
    IF t = cls THEN TRUE
    ELSE IF t = "BaseException" THEN FALSE
    ELSE IsSubclass(Base(t), cls)

\* What a call into the document library can raise while building.
LibraryErrors ==
    { [type |-> "PackageNotFoundError", msg |-> "Package not found at 'default.docx'"],
      [type |-> "ImportError", msg |-> "cannot import name 'etree' from 'lxml'"] }

\* What open() of the output file raises, by the state of the directory.
SaveError(dir) ==
    CASE dir = "unwritable" ->
           [type |-> "PermissionError", msg |-> "[Errno 13] Permission denied: '../assets/docx/document_template.docx'"]
      [] dir = "missing" ->
           [type |-> "FileNotFoundError", msg |-> "[Errno 2] No such file or directory: '../assets/docx/document_template.docx'"]
      [] OTHER ->
           [type |-> "OSError", msg |-> "[Errno 28] No space left on device"]

DirStates == {"writable", "unwritable", "missing", "full"}

(* ------------------------------ documents ------------------------------ *)

NoDoc == [sections |-> <<>>, paragraphs |-> <<>>]

\* The margins of a section of the library's blank document.
DefaultSection ==
    [top |-> Inches(<<1, 1>>), bottom |-> Inches(<<1, 1>>),
     left |-> Inches(<<5, 4>>), right |-> Inches(<<5, 4>>)]

\* Document(): n sections with the default margins, an empty body.
BlankDocument(n) ==
    [sections |-> [i \in 1..n |-> DefaultSection], paragraphs |-> <<>>]

\* Files: absent, left by an earlier run, cut short, or a whole document.
Absent == [kind |-> "absent", doc |-> NoDoc]
Stale == [kind |-> "stale", doc |-> NoDoc]
Partial == [kind |-> "partial", doc |-> NoDoc]
DocxFile(d) == [kind |-> "docx", doc |-> d]

(* ------------------------------- state --------------------------------- *)

VARIABLES
    pc,            \* the statement about to run
    depInstalled,  \* environment: python-docx can be imported
    numSections,   \* environment: sections of the library's blank document
    outDir,        \* environment: state of ../assets/docx
    stdoutUnicode, \* environment: sys.stdout can encode U+2713
    doc,           \* the Document object under construction
    secIdx,        \* position of the `for section in sections` loop
    marker,        \* which of the three marker paragraphs is being added
    fs,            \* the file system: path -> file
    stdout,        \* lines printed to standard output
    stderr,        \* lines the interpreter wrote to standard error
    exc,           \* the exception raised, NoExc when none
    exitCode,      \* process exit status, -1 while running
    saveCalls,     \* number of calls of doc.save made
    saved,         \* doc.save returned without raising
    returned       \* create_template() returned normally

vars == <<pc, depInstalled, numSections, outDir, stdoutUnicode, doc, secIdx,
          marker, fs, stdout, stderr, exc, exitCode, saveCalls, saved, returned>>

env == <<depInstalled, numSections, outDir, stdoutUnicode>>

Init ==
    /\ pc = "import"
    /\ depInstalled \in BOOLEAN
    /\ numSections \in 1..MaxSections
    /\ outDir \in DirStates
    /\ stdoutUnicode \in BOOLEAN
    /\ doc = NoDoc
    /\ secIdx = 0
    /\ marker = 0
    /\ fs \in [Paths -> {Absent, Stale}]
    /\ fs[CwdPath] = Absent
    /\ stdout = <<>>
    /\ stderr = <<>>
    /\ exc = NoExc
    /\ exitCode = -1
    /\ saveCalls = 0
    /\ saved = FALSE
    /\ returned = FALSE

(* ------------------------------ helpers -------------------------------- *)

\* raise e from the statement at `at`; the try block of __main__ catches it.
Raise(e, at) ==
    /\ exc' = [type |-> e.type, msg |-> e.msg, at |-> at]
    /\ pc' = "except"

\* sys.stdout can encode the line: only U+2713 is outside ASCII.
CanEncode(line) == stdoutUnicode \/ \A i \in DOMAIN line : line[i] # CheckMark

\* section.top_margin = ... and the three other assignments of the loop body.
WithMargins(sec, m) ==
    [sec EXCEPT !.top = m, !.bottom = m, !.left = m, !.right = m]

\* The paragraph doc.add_paragraph() returns, after the alignment statement.
NewParagraph(k) ==
    [alignment |-> IF MarkerCentred(k) THEN "CENTER" ELSE "None", runs |-> <<>>]

\* The run p.add_run(text) returns: no font size of its own yet.
NewRun(text) == [text |-> text, size |-> 0]

(* ----------------------- module level, lines 13-15 --------------------- *)

\* from docx import ...: outside the try block of __main__.
ImportDocx ==
    /\ pc = "import"
    /\ IF depInstalled
       THEN /\ pc' = "Document"
            /\ exc' = exc
       ELSE /\ pc' = "uncaught"
            /\ exc' = [type |-> "ModuleNotFoundError",
                       msg |-> "No module named 'docx'", at |-> "import"]
    /\ UNCHANGED <<env, doc, secIdx, marker, fs, stdout, stderr, exitCode,
                   saveCalls, saved, returned>>

\* No handler encloses the import: the interpreter prints the traceback to
\* standard error and exits with status 1.
UncaughtException ==
    /\ pc = "uncaught"
    /\ stderr' = stderr \o <<<<"Traceback (most recent call last):">>,
                             <<exc.type, ": ", exc.msg>>>>
    /\ exitCode' = 1
    /\ pc' = "exit"
    /\ UNCHANGED <<env, doc, secIdx, marker, fs, stdout, exc, saveCalls,
                   saved, returned>>

(* ---------------------- create_template, lines 17-54 ------------------- *)

\* doc = Document(); sections = doc.sections
NewDocument ==
    /\ pc = "Document"
    /\ doc' = BlankDocument(numSections)
    /\ secIdx' = 1
    /\ pc' = "margins"
    /\ UNCHANGED <<env, marker, fs, stdout, stderr, exc, exitCode, saveCalls,
                   saved, returned>>

\* A call into the library raises instead of returning.
LibraryRaises ==
    /\ pc \in {"Document", "add_paragraph", "add_run"}
    /\ \E e \in LibraryErrors : Raise(e, pc)
    /\ UNCHANGED <<env, doc, secIdx, marker, fs, stdout, stderr, exitCode,
                   saveCalls, saved, returned>>

SetMargins_FirstOnly ==
    /\ pc = "margins"
    /\ secIdx <= Len(doc.sections)
    /\ doc' = [doc EXCEPT !.sections[secIdx] = WithMargins(@, Inches(Half))]
    /\ secIdx' = Len(doc.sections) + 1
    /\ UNCHANGED <<pc, env, marker, fs, stdout, stderr, exc, exitCode,
                   saveCalls, saved, returned>>

\* One iteration of `for section in sections`.
SetMargins ==
    /\ pc = "margins"
    /\ secIdx <= Len(doc.sections)
    /\ doc' = [doc EXCEPT !.sections[secIdx] = WithMargins(@, Inches(Half))]
    /\ secIdx' = secIdx + 1
    /\ UNCHANGED <<pc, env, marker, fs, stdout, stderr, exc, exitCode,
                   saveCalls, saved, returned>>

\* The loop is exhausted.
MarginsDone ==
    /\ pc = "margins"
    /\ secIdx > Len(doc.sections)
    /\ marker' = 1
    /\ pc' = "add_paragraph"
    /\ UNCHANGED <<env, doc, secIdx, fs, stdout, stderr, exc, exitCode,
                   saveCalls, saved, returned>>

\* p = doc.add_paragraph(); p.alignment = CENTER (not for the third)
AddParagraph ==
    /\ pc = "add_paragraph"
    /\ doc' = [doc EXCEPT !.paragraphs = Append(@, NewParagraph(marker))]
    /\ pc' = "add_run"
    /\ UNCHANGED <<env, secIdx, marker, fs, stdout, stderr, exc, exitCode,
                   saveCalls, saved, returned>>

\* run = p.add_run(text), p being the paragraph just added
AddRun ==
    /\ pc = "add_run"
    /\ LET p == Len(doc.paragraphs)
       IN doc' = [doc EXCEPT !.paragraphs[p].runs = Append(@, NewRun(MarkerText(marker)))]
    /\ pc' = "font_size"
    /\ UNCHANGED <<env, secIdx, marker, fs, stdout, stderr, exc, exitCode,
                   saveCalls, saved, returned>>

SetFontSize_ThirdForgotten ==
    /\ pc = "font_size"
    /\ LET p == Len(doc.paragraphs)
           r == Len(doc.paragraphs[p].runs)
       IN doc' = IF marker < NumMarkers
                 THEN [doc EXCEPT !.paragraphs[p].runs[r].size = Pt(1)]
                 ELSE doc
    /\ IF marker < NumMarkers
       THEN marker' = marker + 1 /\ pc' = "add_paragraph"
       ELSE marker' = marker /\ pc' = "save"
    /\ UNCHANGED <<env, secIdx, fs, stdout, stderr, exc, exitCode,
                   saveCalls, saved, returned>>

\* run.font.size = Pt(1), then on to the next marker or to the save
SetFontSize ==
    /\ pc = "font_size"
    /\ LET p == Len(doc.paragraphs)
           r == Len(doc.paragraphs[p].runs)
       IN doc' = [doc EXCEPT !.paragraphs[p].runs[r].size = Pt(1)]
    /\ IF marker < NumMarkers
       THEN marker' = marker + 1 /\ pc' = "add_paragraph"
       ELSE marker' = marker /\ pc' = "save"
    /\ UNCHANGED <<env, secIdx, fs, stdout, stderr, exc, exitCode,
                   saveCalls, saved, returned>>

Save_WrongPath ==
    /\ pc = "save"
    /\ saveCalls' = saveCalls + 1
    /\ CASE outDir = "writable" ->
              /\ fs' = [fs EXCEPT ![CwdPath] = DocxFile(doc)]
              /\ saved' = TRUE
              /\ pc' = "print_success"
              /\ exc' = exc
         [] outDir = "full" ->
              /\ fs' = [fs EXCEPT ![CwdPath] = Partial]
              /\ saved' = saved
              /\ Raise(SaveError(outDir), "save")
         [] OTHER ->
              /\ fs' = fs
              /\ saved' = saved
              /\ Raise(SaveError(outDir), "save")
    /\ UNCHANGED <<env, doc, secIdx, marker, stdout, stderr, exitCode, returned>>

Save_Swallow ==
    /\ pc = "save"
    /\ saveCalls' = saveCalls + 1
    /\ CASE outDir = "writable" ->
              /\ fs' = [fs EXCEPT ![OutputPath] = DocxFile(doc)]
              /\ saved' = TRUE
         [] outDir = "full" ->
              /\ fs' = [fs EXCEPT ![OutputPath] = Partial]
              /\ saved' = saved
         [] OTHER ->
              /\ fs' = fs
              /\ saved' = saved
    /\ pc' = "print_success"
    /\ UNCHANGED <<env, doc, secIdx, marker, stdout, stderr, exc, exitCode, returned>>

\* doc.save(output_path): opens the file for writing and writes the package.
Save ==
    /\ pc = "save"
    /\ saveCalls' = saveCalls + 1
    /\ CASE outDir = "writable" ->
              /\ fs' = [fs EXCEPT ![OutputPath] = DocxFile(doc)]
              /\ saved' = TRUE
              /\ pc' = "print_success"
              /\ exc' = exc
         [] outDir = "full" ->
              /\ fs' = [fs EXCEPT ![OutputPath] = Partial]
              /\ saved' = saved
              /\ Raise(SaveError(outDir), "save")
         [] OTHER ->
              /\ fs' = fs
              /\ saved' = saved
              /\ Raise(SaveError(outDir), "save")
    /\ UNCHANGED <<env, doc, secIdx, marker, stdout, stderr, exitCode, returned>>

\* print(f'<U+2713> Template created successfully at: {output_path}')
PrintSuccess ==
    /\ pc = "print_success"
    /\ IF CanEncode(SuccessLine)
       THEN /\ stdout' = Append(stdout, SuccessLine)
            /\ pc' = "print_usage"
            /\ exc' = exc
       ELSE /\ stdout' = stdout
            /\ Raise([type |-> "UnicodeEncodeError",
                      msg |-> "'charmap' codec can't encode character '\\u2713' in position 0: character maps to <undefined>"],
                     "print_success")
    /\ UNCHANGED <<env, doc, secIdx, marker, fs, stderr, exitCode, saveCalls,
                   saved, returned>>

\* print('  This template can now be used ...'); the function then returns.
PrintUsage ==
    /\ pc = "print_usage"
    /\ stdout' = Append(stdout, UsageLine)
    /\ returned' = TRUE
    /\ pc' = "returned"
    /\ UNCHANGED <<env, doc, secIdx, marker, fs, stderr, exc, exitCode,
                   saveCalls, saved>>

(* --------------------------- __main__, 56-65 --------------------------- *)

\* The try statement completes; the script ends and the status is 0.
ExitNormally ==
    /\ pc = "returned"
    /\ exitCode' = 0
    /\ pc' = "exit"
    /\ UNCHANGED <<env, doc, secIdx, marker, fs, stdout, stderr, exc,
                   saveCalls, saved, returned>>

\* except ImportError: two prints and exit(1)
ExceptImportError ==
    /\ pc = "except"
    /\ IsSubclass(exc.type, "ImportError")
    /\ stdout' = stdout \o <<DepMissingLine, InstallHintLine>>
    /\ exitCode' = 1
    /\ pc' = "exit"
    /\ UNCHANGED <<env, doc, secIdx, marker, fs, stderr, exc, saveCalls,
                   saved, returned>>

ExceptException_ExitZero ==
    /\ pc = "except"
    /\ ~IsSubclass(exc.type, "ImportError")
    /\ IsSubclass(exc.type, "Exception")
    /\ stdout' = Append(stdout, ErrorLine(exc))
    /\ exitCode' = 0
    /\ pc' = "exit"
    /\ UNCHANGED <<env, doc, secIdx, marker, fs, stderr, exc, saveCalls,
                   saved, returned>>

ExceptException_NoMessage ==
    /\ pc = "except"
    /\ ~IsSubclass(exc.type, "ImportError")
    /\ IsSubclass(exc.type, "Exception")
    /\ stdout' = Append(stdout, <<"Error creating template: ">>)
    /\ exitCode' = 1
    /\ pc' = "exit"
    /\ UNCHANGED <<env, doc, secIdx, marker, fs, stderr, exc, saveCalls,
                   saved, returned>>

ExceptException_RetrySave ==
    /\ pc = "except"
    /\ ~IsSubclass(exc.type, "ImportError")
    /\ IsSubclass(exc.type, "Exception")
    /\ stdout' = Append(stdout, ErrorLine(exc))
    /\ IF exc.at = "save" /\ saveCalls < 2
       THEN exitCode' = exitCode /\ pc' = "save"
       ELSE exitCode' = 1 /\ pc' = "exit"
    /\ UNCHANGED <<env, doc, secIdx, marker, fs, stderr, exc, saveCalls,
                   saved, returned>>

\* except Exception as e: print(f'Error creating template: {e}'); exit(1).
\* Reached only when the first clause did not match.
ExceptException ==
    /\ pc = "except"
    /\ ~IsSubclass(exc.type, "ImportError")
    /\ IsSubclass(exc.type, "Exception")
    /\ stdout' = Append(stdout, ErrorLine(exc))
    /\ exitCode' = 1
    /\ pc' = "exit"
    /\ UNCHANGED <<env, doc, secIdx, marker, fs, stderr, exc, saveCalls,
                   saved, returned>>

(* --------------------------- specification ----------------------------- *)

Next ==
    \/ ImportDocx
    \/ UncaughtException
    \/ NewDocument
    \/ LibraryRaises
    \/ SetMargins
    \/ MarginsDone
    \/ AddParagraph
    \/ AddRun
    \/ SetFontSize
    \/ Save
    \/ PrintSuccess
    \/ PrintUsage
    \/ ExitNormally
    \/ ExceptImportError
    \/ ExceptException

Spec == Init /\ [][Next]_vars

\* The interpreter runs the script's statements one after another until the
\* process exits: a step that can be taken is taken.
FairSpec == Spec /\ WF_vars(Next)

(* ------------------------------ properties ----------------------------- *)

Done == pc = "exit"
Failed == exc # NoExc
Printed(line) == \E i \in DOMAIN stdout : stdout[i] = line
SavedFile == fs[OutputPath]
TextOf(par) == [r \in DOMAIN par.runs |-> par.runs[r].text]

\* C1: when the document library is not installed, the run prints the
\* dependency-missing message and the install hint, and exits with code 1.
C1_MissingDependencyReported ==
    (Done /\ ~depInstalled) =>
        /\ stdout = <<DepMissingLine, InstallHintLine>>
        /\ exitCode = 1

\* C2: a finished run has exit code 1 exactly when an exception was raised
\* (at the import or anywhere in create_template, the save included) and
\* exit code 0 exactly when create_template returned normally; an unfinished
\* run has no exit code, and no other code occurs.
C2_ExitCodeIffFailed ==
    /\ exitCode \in {-1, 0, 1}
    /\ exitCode = -1 <=> ~Done
    /\ Done => /\ exitCode = 1 <=> Failed
               /\ exitCode = 0 <=> returned
               /\ returned <=> ~Failed

C2_Witness == Done /\ Failed /\ exc.at = "print_success" /\ exitCode = 1

\* C3: a finished run with the dependency installed whose save returned
\* without raising leaves a document file at the fixed output path, and has
\* written to no other path.
C3_FileAtFixedPath ==
    (Done /\ depInstalled /\ saved) =>
        /\ SavedFile.kind = "docx"
        /\ \A p \in Paths \ {OutputPath} : fs[p] = Absent

C3_Witness ==
    Done /\ depInstalled /\ saved /\ exitCode = 0 /\ SavedFile = DocxFile(doc)

\* C4: every section of a saved document has its top, bottom, left and
\* right margins equal to half an inch.
C4_SavedMargins ==
    \A p \in Paths :
        fs[p].kind = "docx" =>
            /\ Len(fs[p].doc.sections) = numSections
            /\ \A i \in DOMAIN fs[p].doc.sections :
                  LET sec == fs[p].doc.sections[i]
                  IN /\ 2 * sec.top = EMUS_PER_INCH
                     /\ 2 * sec.bottom = EMUS_PER_INCH
                     /\ 2 * sec.left = EMUS_PER_INCH
                     /\ 2 * sec.right = EMUS_PER_INCH

C4_Witness == SavedFile.kind = "docx" /\ Len(SavedFile.doc.sections) >= 2

\* C5: a saved document has exactly three paragraphs, with the texts
\* '{% for page in pages %}', '{{%img}}' and '{% endfor %}'; each paragraph
\* has exactly one run and each run has font size 1pt.
C5_SavedParagraphs ==
    \A p \in Paths :
        fs[p].kind = "docx" =>
            LET ps == fs[p].doc.paragraphs
            IN /\ Len(ps) = 3
               /\ \A k \in DOMAIN ps :
                     /\ Len(ps[k].runs) = 1
                     /\ ps[k].runs[1].size = 12700
               /\ {TextOf(ps[k]) : k \in DOMAIN ps} =
                     {<<"{% for page in pages %}">>, <<"{{%img}}">>, <<"{% endfor %}">>}

C5_Witness == Done /\ SavedFile.kind = "docx" /\ Len(SavedFile.doc.paragraphs) = 3

\* C6: when the save fails because the output directory is unwritable, the
\* run prints 'Error creating template: ' followed by the exception's
\* message, exits with code 1 and does not print the success message.
C6_UnwritableReported ==
    (Done /\ outDir = "unwritable" /\ saveCalls > 0) =>
        /\ exc.type = "PermissionError"
        /\ exc.at = "save"
        /\ stdout = << <<"Error creating template: ", exc.msg>> >>
        /\ exitCode = 1
        /\ ~Printed(SuccessLine)

C6_Witness == Done /\ outDir = "unwritable" /\ saveCalls = 1 /\ exc.at = "save"

\* C7: a finished run that failed has printed exactly one of the two error
\* messages (the dependency-missing one for an ImportError, 'Error creating
\* template' with the exception text for any other exception), has exit code
\* 1, has called the save at most once, and what the save wrote is still
\* there.
C7_ExactlyOneErrorMessage ==
    (Done /\ Failed) =>
        /\ Printed(DepMissingLine) <=> IsSubclass(exc.type, "ImportError")
        /\ Printed(ErrorLine(exc)) <=> ~IsSubclass(exc.type, "ImportError")
        /\ Printed(DepMissingLine) # Printed(ErrorLine(exc))
        /\ exitCode = 1
        /\ saveCalls <= 1
        /\ saved => SavedFile = DocxFile(doc)
        /\ (exc.at = "save" /\ outDir = "full") => SavedFile = Partial

\* C8: in a saved document the loop opener comes first, the image marker
\* second and the loop closer third, so the image marker lies strictly
\* between the two; the three are in the document when the save starts, and
\* the document does not change once the save has been called.
C8_OrderInFile ==
    \A p \in Paths :
        fs[p].kind = "docx" =>
            LET ps == fs[p].doc.paragraphs
            IN \E i, j, k \in DOMAIN ps :
                  /\ i < j /\ j < k
                  /\ TextOf(ps[i]) = <<ForMarker>>
                  /\ TextOf(ps[j]) = <<ImgMarker>>
                  /\ TextOf(ps[k]) = <<EndMarker>>
                  /\ \A n \in DOMAIN ps :
                        /\ TextOf(ps[n]) = <<ImgMarker>> => (i < n /\ n < k)
                        /\ TextOf(ps[n]) = <<ForMarker>> => n < j
                        /\ TextOf(ps[n]) = <<EndMarker>> => j < n

C8_MarkersInOrder ==
    /\ []C8_OrderInFile
    /\ [](pc = "save" => Len(doc.paragraphs) = NumMarkers)
    /\ [][saveCalls' > 0 => doc' = doc]_vars

C8_Witness == pc = "print_usage" /\ saved /\ SavedFile = DocxFile(doc)

\* C9: the success message is printed only after the save has returned
\* without raising: whenever it is printed the file has been saved, and a
\* run in which a step up to and including the save raised has not printed
\* it.
C9_SuccessOnlyAfterSave ==
    /\ Printed(SuccessLine) =>
          /\ saved
          /\ saveCalls = 1
          /\ SavedFile = DocxFile(doc)
    /\ exc.at \in {"import", "Document", "add_paragraph", "add_run", "save"} =>
          ~Printed(SuccessLine)

C9_Witness == Printed(SuccessLine) /\ returned /\ ~Done

\* C10: every run terminates; the save is called at most once; a finished
\* run ended either saved with exit code 0 or with an error reported and
\* exit code 1, never both and never neither.
ErrorReported ==
    \/ Printed(DepMissingLine)
    \/ Printed(ErrorLine(exc))
    \/ stderr # <<>>

SavedExitZero == saved /\ exitCode = 0 /\ ~Failed
ErrorExitOne == ErrorReported /\ exitCode = 1 /\ Failed

C10_TerminatesOneSave ==
    /\ <>Done
    /\ [](saveCalls <= 1)
    /\ [](Done => (SavedExitZero # ErrorExitOne))
    /\ [][Done => Done']_vars

C10_Witness == Done /\ saveCalls = 1 /\ exc.type = "OSError" /\ exitCode = 1

====
